---- MODULE Spec2Model ----
(***************************************************************************)
(* Model of the config-driven NVMe QA pipeline of nvme-qa.py:              *)
(* main -> consolidate_results -> per controller: sanitize_controller,     *)
(* list_nvme_namespaces, maybe_provision_namespace, test_namespace         *)
(* (monitor_smart, then one test_workload per workload, each with four     *)
(* pool tasks), maybe_unmount_namespace, nvme_telemetry_log; save_json.    *)
(* External commands are nondeterministic: they return output, return      *)
(* "Error:" text, or (where the code has no handler) raise.                *)
(* ResampleSpec applies _resample_to_len and plot_combined_timeline to     *)
(* bounded series; MonitorSmartSpec runs monitor_smart against the wall    *)
(* clock; LoadConfigSpec calls load_config repeatedly in one process.       *)
(* FairSpec is the pipeline in which an enabled step is eventually taken.   *)
(***************************************************************************)
EXTENDS Integers, Sequences, FiniteSets, TLC

\* ------------------------------------------------------------------ bounds
MaxFaults == 1          \* failures (error text, bad output, raise) injected per run
MaxParallel == 2        \* workload executors per run (namespaces x workloads)
SanitizeTimeout == 2    \* cfg["sanitize"]["timeout"], in ticks
SanitizeInterval == 1   \* cfg["sanitize"]["interval"], in ticks
SmartDuration == 1      \* cfg["smart"]["duration"], in ticks
SmartInterval == 1      \* cfg["smart"]["interval"], in ticks

\* ------------------------------------------------------------- device names
\* Device paths are character sequences (the /dev/ prefix is left out).
nvme0 == <<"n", "v", "m", "e", "0">>
nvme1 == <<"n", "v", "m", "e", "1">>
nvme0n1 == nvme0 \o <<"n", "1">>
nvme0n2 == nvme0 \o <<"n", "2">>
nvme1n1 == nvme1 \o <<"n", "1">>
AllNs == {nvme0n1, nvme0n2, nvme1n1}
AllCtrls == {nvme0, nvme1}
Digits == {"0", "1", "2", "3", "4", "5", "6", "7", "8", "9"}

RECURSIVE StripDigits(_)
StripDigits(s) ==
    IF Len(s) > 0 /\ s[Len(s)] \in Digits THEN StripDigits(SubSeq(s, 1, Len(s) - 1)) ELSE s

\* re.sub(r"n\d+$", "", ns)
controller_from_ns(ns) ==
    LET t == StripDigits(ns) IN
    IF Len(t) < Len(ns) /\ Len(t) > 0 /\ t[Len(t)] = "n"
    THEN SubSeq(t, 1, Len(t) - 1)
    ELSE ns

RECURSIVE SelectSeq2(_, _)
SelectSeq2(s, c) ==
    IF s = <<>> THEN <<>>
    ELSE IF controller_from_ns(Head(s)) = c
         THEN <<Head(s)>> \o SelectSeq2(Tail(s), c)
         ELSE SelectSeq2(Tail(s), c)

\* mutant: every listed namespace is taken, whatever its controller
namespaces_unfiltered(all_ns, c) == all_ns
\* [ns for ns in all_ns if controller_from_ns(ns) == ctrl] (regex filters pass)
list_nvme_namespaces(all_ns, c) == SelectSeq2(all_ns, c)

Range(s) == {s[i] : i \in 1..Len(s)}

\* ------------------------------------------------------------- small helpers
EmptyMap == [x \in {} |-> x]
Put(f, k, v) == [x \in (DOMAIN f) \cup {k} |-> IF x = k THEN v ELSE f[x]]

Tasks == {"fio", "sensors", "turbostat", "power"}
MountBase == <<"/mnt/nvmeqa/">>
NoMountpoint == <<>>

\* mount_namespace: mp = os.path.join(mount_base, os.path.basename(ns))
MountpointOf(ns) == MountBase \o ns

\* list(cfg["fio"].get("workloads", [])) or ["randread"]
EffectiveWorkloads(c) == IF c.workloads = <<>> THEN <<"randread">> ELSE c.workloads

VARIABLES
    cfg,          \* the loaded configuration
    controllers,  \* list handed to consolidate_results
    devices,      \* namespaces reported by 'nvme list'
    pc,           \* position of the main thread
    ci,           \* index of the controller being processed
    san,          \* locals of sanitize_controller
    namespaces,   \* namespaces of the current controller
    pi,           \* index of the namespace loop (provision / teardown)
    pstep,        \* position inside maybe_provision_namespace
    prov_out,     \* 'out' of the running maybe_provision_namespace
    prov_map,     \* ns -> provision result
    nsState,      \* ns -> position of its test_namespace task
    smart,        \* ns -> locals of monitor_smart
    nswl,         \* ns -> results["workloads"] of its test_namespace
    task,         \* ns -> workload index -> task -> state
    wlFut,        \* ns -> workload index -> future of test_workload
    nsFut,        \* ns -> future of test_namespace
    results,      \* the result tree
    doc,          \* the report file
    mounted,      \* mountpoints for which mount was issued
    unmounted,    \* mountpoints for which umount was issued
    injected,     \* the failures injected so far, each with its site
    rs,           \* one call of _resample_to_len: arguments and result
    plot,         \* the series of one plot_combined_timeline call
    sm,           \* one call of monitor_smart against the wall clock
    lc            \* the DEFAULT_CFG object and the last load_config call

inputs == <<cfg, controllers, devices>>
provVars == <<pi, pstep, prov_out, prov_map>>
nsVars == <<nsState, smart, nswl, task, wlFut, nsFut>>
envVars == <<mounted, unmounted>>
plotVars == <<rs, plot>>
vars == <<inputs, pc, ci, san, namespaces, provVars, nsVars, results, doc, envVars, injected,
          plotVars, sm, lc>>

\* ------------------------------------------------------------ initial values
SanInit == [issued |-> 0, elapsed |-> 0, out |-> "none", last |-> "none",
            broke |-> FALSE, polls |-> 0]
ProvInit(ns) == [namespace |-> ns, actions |-> EmptyMap, mountpoint |-> NoMountpoint]
SmartInit == [elapsed |-> 0, logs |-> <<>>, polls |-> 0]
TaskInit == [k \in 1..MaxParallel |-> [t \in Tasks |-> "idle"]]
NoValue == [error |-> "none", fio_json |-> "absent", sensors_series |-> "absent",
            turbostat |-> "absent", power_states |-> "absent"]
NoFuture == [state |-> "none", value |-> NoValue]
WlFutInit == [k \in 1..MaxParallel |-> NoFuture]
NoNsValue == [keys |-> {}, smart_logs |-> <<>>, workloads |-> EmptyMap]
NoNsFuture == [state |-> "none", value |-> NoNsValue]

ctrl == controllers[ci]
workloads == EffectiveWorkloads(cfg)

\* A failure injected at a site: step, namespace, index (workload or poll), task.
Fault(step, n, k, t, o) == [step |-> step, ns |-> n, k |-> k, t |-> t, o |-> o]
CanFail == Cardinality(injected) < MaxFaults
Charge(f) == IF f.o = "ok" THEN injected ELSE injected \cup {f}

\* ------------------------------------------------------------- run inputs
\* DEFAULT_CFG["fio"]["workloads"]
DefaultWorkloads == <<"randread", "randwrite", "read", "write", "randrw">>

\* cfg["fio"]["workloads"]: the first n default workloads (n = 0: empty list)
WorkloadLists == {SubSeq(DefaultWorkloads, 1, n) : n \in 0..MaxParallel}

\* a workload list that names one workload twice
RepeatedWorkloads == <<"randread", "randread">>

MkCfg(s, p, w) ==
    [sanitize_enabled |-> s[1], sanitize_action |-> s[2],
     write_protect |-> p[1], format |-> p[2], create |-> p[3], mount |-> p[4],
     fio_on_fs |-> p[5], nvme_telemetry |-> p[6], workloads |-> w]

\* write_protect, format, create, mount, fio_on_fs, nvme_telemetry
ProvOff == <<FALSE, FALSE, FALSE, FALSE, FALSE, TRUE>>
ProvModes == {ProvOff,
              <<TRUE, TRUE, FALSE, TRUE, FALSE, FALSE>>,
              <<FALSE, FALSE, TRUE, TRUE, TRUE, TRUE>>}

\* Configurations explored: sanitize off or a valid action, with every
\* provisioning mode, on one workload; the longer workload lists with sanitize
\* and provisioning off; the two sanitize actions that return at once, with
\* provisioning off and the default workload; a list naming a workload twice.
SanitizeOff == <<FALSE, "none">>
Configs ==
    {MkCfg(s, p, <<"randread">>) : s \in {SanitizeOff, <<TRUE, "block">>}, p \in ProvModes}
    \cup {MkCfg(SanitizeOff, ProvOff, w) : w \in WorkloadLists \ {<<>>}}
    \cup {MkCfg(s, ProvOff, <<>>) : s \in {<<TRUE, "none">>, <<TRUE, "bogus">>}}
    \cup {MkCfg(SanitizeOff, ProvOff, RepeatedWorkloads)}

\* 'nvme list' outputs explored: no device; two namespaces of one controller;
\* a controller without namespaces before one with a namespace; one namespace
\* on each of two controllers.
Topologies ==
    {[controllers |-> <<>>, devices |-> <<>>],
     [controllers |-> <<nvme0, nvme1>>, devices |-> <<nvme0n1, nvme0n2>>],
     [controllers |-> <<nvme0, nvme1>>, devices |-> <<nvme1n1>>],
     [controllers |-> <<nvme0, nvme1>>, devices |-> <<nvme0n1, nvme1n1>>]}

\* the orchestrator before main() has done anything
RunInit ==
    /\ pc = "main"
    /\ ci = 0
    /\ san = SanInit
    /\ namespaces = <<>>
    /\ pi = 0
    /\ pstep = "none"
    /\ prov_map = EmptyMap
    /\ nsState = [n \in AllNs |-> "idle"]
    /\ smart = [n \in AllNs |-> SmartInit]
    /\ nswl = [n \in AllNs |-> EmptyMap]
    /\ task = [n \in AllNs |-> TaskInit]
    /\ wlFut = [n \in AllNs |-> WlFutInit]
    /\ nsFut = [n \in AllNs |-> NoNsFuture]
    /\ prov_out = ProvInit(<<>>)
    /\ results = EmptyMap
    /\ doc = [state |-> "absent", data |-> EmptyMap]
    /\ mounted = {}
    /\ unmounted = {}
    /\ injected = {}

\* report generation has not started: no resampler call, no combined plot
RsIdle == [state |-> "idle", values |-> <<>>, target_len |-> 0, mapped |-> <<>>]
PlotIdle == [state |-> "idle", iops_series |-> <<>>, lat_series |-> <<>>]
\* no stand-alone monitor_smart call
SmIdle == [state |-> "idle", start |-> 0, now |-> 0, interval |-> 0, duration |-> 0,
           polls |-> 0, outcomes |-> <<>>, logs |-> <<>>]

\* the part of DEFAULT_CFG followed through load_config: a top-level scalar and
\* a nested dict
DEFAULT_CFG == [output_dir |-> "./logs", smart |-> [duration |-> 20, interval |-> 5]]
\* the module has been imported and load_config has not been called
LcIdle == [defaults |-> DEFAULT_CFG, calls |-> 0, file |-> EmptyMap,
           outcome |-> "none", value |-> DEFAULT_CFG]

Init ==
    /\ cfg \in Configs
    /\ \E t \in Topologies :
        /\ Len(t.devices) * Len(EffectiveWorkloads(cfg)) <= MaxParallel
        /\ t.controllers = <<>> => cfg = MkCfg(SanitizeOff, ProvOff, <<"randread">>)
        /\ controllers = t.controllers
        /\ devices = t.devices
    /\ RunInit
    /\ rs = RsIdle
    /\ plot = PlotIdle
    /\ sm = SmIdle
    /\ lc = LcIdle

\* --------------------------------------------------------------------- main
\* main(): no controllers -> print and return; else consolidate_results.
Main ==
    /\ pc = "main"
    /\ IF controllers = <<>>
       THEN pc' = "no_controllers" /\ ci' = ci
       ELSE pc' = "sanitize" /\ ci' = 1
    /\ UNCHANGED <<inputs, plotVars, sm, lc, san, namespaces, provVars, nsVars, results, doc, envVars, injected>>

\* An exception that no handler of consolidate_results or main catches.
Abort == pc' = "aborted"

\* results.setdefault(ctrl, {})
DevDataInit == [sanitize |-> "absent", info |-> "absent", has_namespaces |-> FALSE,
                namespaces |-> EmptyMap, nvme_telemetry_log |-> "absent"]
DevData == IF ctrl \in DOMAIN results THEN results[ctrl] ELSE DevDataInit

\* ----------------------------------------------------------------- sanitize
\* consolidate_results: if cfg["sanitize"]["enabled"] is false the step is skipped.
SanitizeSkip ==
    /\ pc = "sanitize"
    /\ ~cfg.sanitize_enabled
    /\ pc' = "discover"
    /\ UNCHANGED <<inputs, plotVars, sm, lc, ci, san, namespaces, provVars, nsVars, results, doc, envVars, injected>>

\* sanitize_controller up to the first poll: "none" and an unknown action return
\* at once without running a command (so nothing can fail there); otherwise the
\* sanitize command is issued (o is its outcome).
SanitizeStart(o) ==
    /\ pc = "sanitize"
    /\ cfg.sanitize_enabled
    /\ o = "ok" \/ (CanFail /\ cfg.sanitize_action \in {"block", "overwrite", "crypto"})
    /\ injected' = Charge(Fault("sanitize", ctrl, 0, "none", o))
    /\ IF o = "raise"
       THEN Abort /\ UNCHANGED <<san, results>>
       ELSE IF cfg.sanitize_action = "none"
       THEN /\ o = "ok"
            /\ results' = Put(results, ctrl, [DevData EXCEPT !.sanitize = "sanitize: skipped"])
            /\ pc' = "discover"
            /\ san' = san
       ELSE IF cfg.sanitize_action \notin {"block", "overwrite", "crypto"}
       THEN /\ o = "ok"
            /\ results' = Put(results, ctrl, [DevData EXCEPT !.sanitize = "sanitize: invalid action"])
            /\ pc' = "discover"
            /\ san' = san
       ELSE /\ san' = [SanInit EXCEPT !.issued = 1, !.out = o]
            /\ pc' = "san_poll"
            /\ results' = results
    /\ UNCHANGED <<inputs, plotVars, sm, lc, ci, namespaces, provVars, nsVars, doc, envVars>>

\* the loop test of sanitize_controller: time.time() - start < timeout
SanitizeLoopOpen(s) == s.elapsed < SanitizeTimeout /\ ~s.broke

\* one iteration of the status loop: read the sanitize log, sleep the interval;
\* the loop is left early only when the status text contains "Error:".
SanitizePoll(status) ==
    /\ pc = "san_poll"
    /\ SanitizeLoopOpen(san)
    /\ status = "Error" => CanFail
    /\ injected' = Charge(Fault("sanitize_status", ctrl, san.polls,
                                "none", IF status = "Error" THEN status ELSE "ok"))
    /\ san' = [san EXCEPT !.last = status,
                          !.polls = @ + 1,
                          !.elapsed = @ + SanitizeInterval,
                          !.broke = (status = "Error")]
    /\ UNCHANGED <<inputs, plotVars, sm, lc, pc, ci, namespaces, provVars, nsVars, results, doc, envVars>>

\* mutant: the sanitize result is recorded without waiting for the status loop
SanitizeReturnEarly ==
    /\ pc = "san_poll"
    /\ results' = Put(results, ctrl, [DevData EXCEPT !.sanitize = san.out])
    /\ pc' = "discover"
    /\ UNCHANGED <<inputs, plotVars, sm, lc, ci, san, namespaces, provVars, nsVars, doc, envVars, injected>>

\* sanitize_controller returns the output of the sanitize command.
SanitizeReturn ==
    /\ pc = "san_poll"
    /\ ~SanitizeLoopOpen(san)
    /\ results' = Put(results, ctrl, [DevData EXCEPT !.sanitize = san.out])
    /\ pc' = "discover"
    /\ UNCHANGED <<inputs, plotVars, sm, lc, ci, san, namespaces, provVars, nsVars, doc, envVars, injected>>

\* ---------------------------------------------------------------- discovery
\* namespaces = list_nvme_namespaces(ctrl, cfg); dev_data["info"] = ...;
\* dev_data["namespaces"] = {}; prov_map = {}
Discover(o) ==
    /\ pc = "discover"
    /\ o = "ok" \/ CanFail
    /\ injected' = Charge(Fault("discover", ctrl, 0, "none", o))
    /\ IF o = "raise"
       THEN Abort /\ UNCHANGED <<namespaces, provVars, results>>
       ELSE /\ namespaces' = list_nvme_namespaces(devices, ctrl)
            /\ results' = Put(results, ctrl,
                              [DevData EXCEPT !.info = "info", !.has_namespaces = TRUE,
                                              !.namespaces = EmptyMap])
            /\ prov_map' = EmptyMap
            /\ prov_out' = prov_out
            /\ IF namespaces' = <<>>
               THEN pc' = "test" /\ pi' = 0 /\ pstep' = "none"
               ELSE pc' = "provision" /\ pi' = 1 /\ pstep' = "write_protect"
    /\ UNCHANGED <<inputs, plotVars, sm, lc, ci, san, nsVars, doc, envVars>>

\* ------------------------------------------------------------- provisioning
ActionValue(o, mp) == [output |-> o, mountpoint |-> mp]

\* maybe_provision_namespace: out = {...}; optional write-protect
ProvWriteProtect(o) ==
    /\ pc = "provision" /\ pstep = "write_protect"
    /\ o = "ok" \/ (CanFail /\ cfg.write_protect)
    /\ injected' = Charge(Fault("write_protect", namespaces[pi], 0, "none", o))
    /\ IF o = "raise"
       THEN Abort /\ UNCHANGED <<pstep, prov_out>>
       ELSE /\ prov_out' =
                 LET out == ProvInit(namespaces[pi]) IN
                 IF cfg.write_protect
                 THEN [out EXCEPT !.actions = Put(@, "write_protect", ActionValue(o, NoMountpoint))]
                 ELSE out
            /\ pstep' = "format"
            /\ pc' = pc
    /\ UNCHANGED <<inputs, plotVars, sm, lc, ci, san, namespaces, pi, prov_map, nsVars, results, doc, envVars>>

\* optional format_namespace (including its sleep of wait_after)
ProvFormat(o) ==
    /\ pc = "provision" /\ pstep = "format"
    /\ o = "ok" \/ (CanFail /\ cfg.format)
    /\ injected' = Charge(Fault("format", namespaces[pi], 0, "none", o))
    /\ IF o = "raise"
       THEN Abort /\ UNCHANGED <<pstep, prov_out>>
       ELSE /\ prov_out' =
                 IF cfg.format
                 THEN [prov_out EXCEPT !.actions = Put(@, "format", ActionValue(o, NoMountpoint))]
                 ELSE prov_out
            /\ pstep' = "mkfs"
            /\ pc' = pc
    /\ UNCHANGED <<inputs, plotVars, sm, lc, ci, san, namespaces, pi, prov_map, nsVars, results, doc, envVars>>

\* optional create_filesystem; the mount is attempted only inside this branch
ProvMkfs(o) ==
    /\ pc = "provision" /\ pstep = "mkfs"
    /\ o = "ok" \/ (CanFail /\ cfg.create)
    /\ injected' = Charge(Fault("mkfs", namespaces[pi], 0, "none", o))
    /\ IF o = "raise"
       THEN Abort /\ UNCHANGED <<pstep, prov_out>>
       ELSE /\ prov_out' =
                 IF cfg.create
                 THEN [prov_out EXCEPT !.actions = Put(@, "mkfs", ActionValue(o, NoMountpoint))]
                 ELSE prov_out
            /\ pstep' = IF cfg.create THEN "mount" ELSE "return"
            /\ pc' = pc
    /\ UNCHANGED <<inputs, plotVars, sm, lc, ci, san, namespaces, pi, prov_map, nsVars, results, doc, envVars>>

\* optional mount_namespace: mkdir of the mountpoint (may raise), then mount
ProvMount(o) ==
    /\ pc = "provision" /\ pstep = "mount"
    /\ o = "ok" \/ (CanFail /\ cfg.mount)
    /\ injected' = Charge(Fault("mount", namespaces[pi], 0, "none", o))
    /\ IF o = "raise"
       THEN Abort /\ UNCHANGED <<pstep, prov_out, mounted>>
       ELSE /\ prov_out' =
                 IF cfg.mount
                 THEN [prov_out EXCEPT !.actions =
                          Put(@, "mount", ActionValue(o, MountpointOf(namespaces[pi])))]
                 ELSE prov_out
            /\ mounted' = IF cfg.mount THEN mounted \cup {MountpointOf(namespaces[pi])}
                          ELSE mounted
            /\ pstep' = "return"
            /\ pc' = pc
    /\ UNCHANGED <<inputs, plotVars, sm, lc, ci, san, namespaces, pi, prov_map, nsVars, results, doc, unmounted>>

\* if mount_info: out["mountpoint"] = ...; return out; prov_map[ns] = out
ProvReturn ==
    /\ pc = "provision" /\ pstep = "return"
    /\ prov_map' = Put(prov_map, namespaces[pi],
                       IF "mount" \in DOMAIN prov_out.actions
                       THEN [prov_out EXCEPT !.mountpoint = prov_out.actions["mount"].mountpoint]
                       ELSE prov_out)
    /\ prov_out' = ProvInit(<<>>)
    /\ IF pi < Len(namespaces)
       THEN pi' = pi + 1 /\ pstep' = "write_protect" /\ pc' = pc
       ELSE pi' = 0 /\ pstep' = "none" /\ pc' = "test"
    /\ UNCHANGED <<inputs, plotVars, sm, lc, ci, san, namespaces, nsVars, results, doc, envVars, injected>>

\* --------------------------------------------------------------- test phase
NsSet == Range(namespaces)
WlIdx == 1..Len(workloads)

\* the argument of executor.submit(test_namespace, ns, cfg, mountpoint=...)
mountpoint_arg(n) == IF n \in DOMAIN prov_map THEN prov_map[n].mountpoint ELSE NoMountpoint

\* with ThreadPoolExecutor(max_workers=len(namespaces) or 1): one test_namespace
\* is submitted per namespace and each gets a worker at once.
SubmitNamespaces ==
    /\ pc = "test"
    /\ nsState' = [n \in AllNs |-> IF n \in NsSet THEN "smart" ELSE nsState[n]]
    /\ nsFut' = [n \in AllNs |-> IF n \in NsSet THEN [NoNsFuture EXCEPT !.state = "pending"]
                                 ELSE nsFut[n]]
    /\ pc' = "join"
    /\ UNCHANGED <<inputs, plotVars, sm, lc, ci, san, namespaces, provVars, smart, nswl, task, wlFut,
                   results, doc, envVars, injected>>

\* the loop test of monitor_smart: time.time() - start < duration
SmartLoopOpen(m) == m.elapsed < SmartDuration

\* monitor_smart, one iteration: a sample is appended when the health probe
\* succeeds and parses; any failure is swallowed; then sleep(interval).
SmartPoll(n, o) ==
    /\ nsState[n] = "smart"
    /\ SmartLoopOpen(smart[n])
    /\ o = "ok" \/ CanFail
    /\ injected' = Charge(Fault("smart", n, smart[n].polls, "none", o))
    /\ smart' = [smart EXCEPT ![n] =
                    [elapsed |-> @.elapsed + SmartInterval,
                     polls |-> @.polls + 1,
                     logs |-> IF o = "ok" THEN Append(@.logs, [time |-> @.elapsed])
                              ELSE @.logs]]
    /\ UNCHANGED <<inputs, plotVars, sm, lc, pc, ci, san, namespaces, provVars, nsState, nswl, task, wlFut,
                   nsFut, results, doc, envVars>>

\* mutant: the four tasks of a workload are queued behind workers that are
\* held by the callers waiting for them, and never start
LaunchWorkloadsWithoutWorkers(n, o) ==
    /\ nsState[n] = "smart"
    /\ ~SmartLoopOpen(smart[n])
    /\ o = "ok" \/ CanFail
    /\ injected' = Charge(Fault("test_namespace", n, 0, "none", o))
    /\ nswl' = [nswl EXCEPT ![n] = EmptyMap]
    /\ IF o = "raise"
       THEN /\ nsState' = [nsState EXCEPT ![n] = "finished"]
            /\ nsFut' = [nsFut EXCEPT ![n] =
                            [state |-> "done",
                             value |-> [NoNsValue EXCEPT !.keys = {"error"}]]]
            /\ UNCHANGED <<task, wlFut>>
       ELSE /\ nsState' = [nsState EXCEPT ![n] = "collect"]
            /\ task' = [task EXCEPT ![n] =
                           [k \in 1..MaxParallel |->
                               IF k \in WlIdx THEN [t \in Tasks |-> "idle"] ELSE @[k]]]
            /\ wlFut' = [wlFut EXCEPT ![n] =
                            [k \in 1..MaxParallel |->
                                IF k \in WlIdx THEN [NoFuture EXCEPT !.state = "pending"]
                                ELSE @[k]]]
            /\ nsFut' = nsFut
    /\ UNCHANGED <<inputs, plotVars, sm, lc, pc, ci, san, namespaces, provVars, smart, results, doc, envVars>>

\* test_namespace after monitor_smart has returned: results = {"smart_logs": ...,
\* "workloads": {}} and one test_workload is submitted per workload; each
\* test_workload submits its four tasks to its own pool of four workers.
\* A fault raised here leaves test_namespace as an exception.
LaunchWorkloads(n, o) ==
    /\ nsState[n] = "smart"
    /\ ~SmartLoopOpen(smart[n])
    /\ o = "ok" \/ CanFail
    /\ injected' = Charge(Fault("test_namespace", n, 0, "none", o))
    /\ nswl' = [nswl EXCEPT ![n] = EmptyMap]
    /\ IF o = "raise"
       THEN /\ nsState' = [nsState EXCEPT ![n] = "finished"]
            /\ nsFut' = [nsFut EXCEPT ![n] =
                            [state |-> "done",
                             value |-> [NoNsValue EXCEPT !.keys = {"error"}]]]
            /\ UNCHANGED <<task, wlFut>>
       ELSE /\ nsState' = [nsState EXCEPT ![n] = "collect"]
            /\ task' = [task EXCEPT ![n] =
                           [k \in 1..MaxParallel |->
                               IF k \in WlIdx THEN [t \in Tasks |-> "run"] ELSE @[k]]]
            /\ wlFut' = [wlFut EXCEPT ![n] =
                            [k \in 1..MaxParallel |->
                                IF k \in WlIdx THEN [NoFuture EXCEPT !.state = "pending"]
                                ELSE @[k]]]
            /\ nsFut' = nsFut
    /\ UNCHANGED <<inputs, plotVars, sm, lc, pc, ci, san, namespaces, provVars, smart, results, doc, envVars>>

TaskOutcomes(t) == IF t = "fio" THEN {"ok", "bad", "raise"} ELSE {"ok", "raise"}

\* one of run_fio_test, sensors_monitor, turbostat_run, power_monitor finishes:
\* with its result, with unparsable fio output ({"error": raw}), or by raising.
TaskFinish(n, k, t, o) ==
    /\ task[n][k][t] = "run"
    /\ o \in TaskOutcomes(t)
    /\ o = "ok" \/ CanFail
    /\ injected' = Charge(Fault("task", n, k, t, o))
    /\ task' = [task EXCEPT ![n][k][t] = o]
    /\ UNCHANGED <<inputs, plotVars, sm, lc, pc, ci, san, namespaces, provVars, nsState, smart, nswl, wlFut,
                   nsFut, results, doc, envVars>>

TaskDone(st) == st \in {"ok", "bad", "raise"}

\* fut_fio.result(), fut_sensors.result(), fut_turbo.result(), fut_power.result()
ResultOrder == <<"fio", "sensors", "turbostat", "power">>

\* the first task, in the order the results are fetched, that raised
FirstRaised(tk) ==
    LET idx == {i \in 1..4 : tk[ResultOrder[i]] = "raise"} IN
    IF idx = {} THEN "none"
    ELSE ResultOrder[CHOOSE i \in idx : \A j \in idx : i <= j]

\* what test_workload produces from its four finished tasks
WorkloadValue(tk) ==
    IF FirstRaised(tk) # "none"
    THEN [NoValue EXCEPT !.error = FirstRaised(tk)]
    ELSE [error |-> "none",
          fio_json |-> IF tk["fio"] = "bad" THEN "error" ELSE "ok",
          sensors_series |-> "ok", turbostat |-> "ok", power_states |-> "ok"]

\* mutant: a result() call that raises leaves the pool without waiting for the rest
JoinedUntilRaise(tk) ==
    \E i \in 1..4 :
        /\ \A j \in 1..i : TaskDone(tk[ResultOrder[j]])
        /\ i = 4 \/ tk[ResultOrder[i]] = "raise"

\* the pool of test_workload is left only when all four tasks have finished
\* (the 'with' block waits for them even when a result() call raised)
JoinedAll(tk) == \A t \in Tasks : TaskDone(tk[t])

\* mutant: test_workload gives up on its telemetry tasks once fio has finished
WorkloadReturnAfterFio(n, k) ==
    /\ wlFut[n][k].state = "pending"
    /\ TaskDone(task[n][k]["fio"])
    /\ wlFut' = [wlFut EXCEPT ![n][k] = [state |-> "done", value |-> WorkloadValue(task[n][k])]]
    /\ task' = [task EXCEPT ![n][k] =
                   [t \in Tasks |-> IF TaskDone(@[t]) THEN "joined" ELSE @[t]]]
    /\ UNCHANGED <<inputs, plotVars, sm, lc, pc, ci, san, namespaces, provVars, nsState, smart, nswl, nsFut,
                   results, doc, envVars, injected>>

\* test_workload returns its WorkloadResult or raises
WorkloadReturn(n, k) ==
    /\ wlFut[n][k].state = "pending"
    /\ JoinedAll(task[n][k])
    /\ wlFut' = [wlFut EXCEPT ![n][k] = [state |-> "done", value |-> WorkloadValue(task[n][k])]]
    /\ task' = [task EXCEPT ![n][k] =
                   [t \in Tasks |-> IF TaskDone(@[t]) THEN "joined" ELSE @[t]]]
    /\ UNCHANGED <<inputs, plotVars, sm, lc, pc, ci, san, namespaces, provVars, nsState, smart, nswl, nsFut,
                   results, doc, envVars, injected>>

\* mutant: no handler around future.result(); the exception leaves test_namespace
CollectWorkloadNoCatch(n, k) ==
    /\ nsState[n] = "collect"
    /\ wlFut[n][k].state = "done"
    /\ wlFut' = [wlFut EXCEPT ![n][k].state = "collected"]
    /\ IF wlFut[n][k].value.error # "none"
       THEN /\ nsState' = [nsState EXCEPT ![n] = "finished"]
            /\ nsFut' = [nsFut EXCEPT ![n] =
                            [state |-> "done",
                             value |-> [NoNsValue EXCEPT !.keys = {"error"}]]]
            /\ nswl' = nswl
       ELSE /\ nswl' = [nswl EXCEPT ![n] = Put(@, workloads[k], wlFut[n][k].value)]
            /\ UNCHANGED <<nsState, nsFut>>
    /\ UNCHANGED <<inputs, plotVars, sm, lc, pc, ci, san, namespaces, provVars, smart, task, results, doc,
                   envVars, injected>>

\* mutant: a workload that raised leaves no entry
CollectWorkloadDropError(n, k) ==
    /\ nsState[n] = "collect"
    /\ wlFut[n][k].state = "done"
    /\ nswl' = [nswl EXCEPT ![n] = IF wlFut[n][k].value.error # "none" THEN @
                                   ELSE Put(@, workloads[k], wlFut[n][k].value)]
    /\ wlFut' = [wlFut EXCEPT ![n][k].state = "collected"]
    /\ UNCHANGED <<inputs, plotVars, sm, lc, pc, ci, san, namespaces, provVars, nsState, smart, task, nsFut,
                   results, doc, envVars, injected>>

\* test_namespace, one turn of 'for future in as_completed(futures)':
\* results["workloads"][rw] = future.result(), or {"error": str(e)}
CollectWorkload(n, k) ==
    /\ nsState[n] = "collect"
    /\ wlFut[n][k].state = "done"
    /\ nswl' = [nswl EXCEPT ![n] = Put(@, workloads[k], wlFut[n][k].value)]
    /\ wlFut' = [wlFut EXCEPT ![n][k].state = "collected"]
    /\ UNCHANGED <<inputs, plotVars, sm, lc, pc, ci, san, namespaces, provVars, nsState, smart, task, nsFut,
                   results, doc, envVars, injected>>

\* mutant: test_namespace returns after the first collected workload
NamespaceReturnAfterFirst(n) ==
    /\ nsState[n] = "collect"
    /\ \E k \in WlIdx : wlFut[n][k].state = "collected"
    /\ nsState' = [nsState EXCEPT ![n] = "finished"]
    /\ nsFut' = [nsFut EXCEPT ![n] =
                    [state |-> "done",
                     value |-> [keys |-> {"smart_logs", "workloads"},
                                smart_logs |-> smart[n].logs,
                                workloads |-> nswl[n]]]]
    /\ UNCHANGED <<inputs, plotVars, sm, lc, pc, ci, san, namespaces, provVars, smart, nswl, task, wlFut,
                   results, doc, envVars, injected>>

\* test_namespace returns results once as_completed is exhausted
NamespaceReturn(n) ==
    /\ nsState[n] = "collect"
    /\ \A k \in WlIdx : wlFut[n][k].state = "collected"
    /\ nsState' = [nsState EXCEPT ![n] = "finished"]
    /\ nsFut' = [nsFut EXCEPT ![n] =
                    [state |-> "done",
                     value |-> [keys |-> {"smart_logs", "workloads"},
                                smart_logs |-> smart[n].logs,
                                workloads |-> nswl[n]]]]
    /\ UNCHANGED <<inputs, plotVars, sm, lc, pc, ci, san, namespaces, provVars, smart, nswl, task, wlFut,
                   results, doc, envVars, injected>>

NsNode(prov, val) == [provision |-> prov, results |-> val, has_post |-> FALSE,
                      post |-> EmptyMap]

\* consolidate_results, one turn of 'for fut in as_completed(futmap)':
\* dev_data["namespaces"][ns] = {"provision": ..., "results": fut.result() or {"error": ...}}
CollectNamespace(n) ==
    /\ pc = "join"
    /\ nsFut[n].state = "done"
    /\ results' = [results EXCEPT ![ctrl].namespaces =
                      Put(@, n, NsNode(prov_map[n], nsFut[n].value))]
    /\ nsFut' = [nsFut EXCEPT ![n].state = "collected"]
    /\ UNCHANGED <<inputs, plotVars, sm, lc, pc, ci, san, namespaces, provVars, nsState, smart, nswl, task,
                   wlFut, doc, envVars, injected>>

\* the pool of consolidate_results is left when every test_namespace was collected
JoinNamespaces ==
    /\ pc = "join"
    /\ \A n \in NsSet : nsFut[n].state = "collected"
    /\ IF namespaces = <<>>
       THEN pc' = "telemetry" /\ pi' = 0
       ELSE pc' = "teardown" /\ pi' = 1
    /\ UNCHANGED <<inputs, plotVars, sm, lc, ci, san, namespaces, pstep, prov_out, prov_map, nsVars, results,
                   doc, envVars, injected>>

\* ----------------------------------------------------------------- teardown
\* mutant: no unmount is issued when the mount command returned failure text
maybe_unmount_if_mount_succeeded(prov, o) ==
    IF /\ "mount" \in DOMAIN prov.actions
       /\ cfg.mount
       /\ prov.actions["mount"].mountpoint # NoMountpoint
       /\ prov.actions["mount"].output = "ok"
    THEN [umount |-> o]
    ELSE EmptyMap

\* maybe_unmount_namespace(ns, cfg, provision_result)
maybe_unmount_namespace(prov, o) ==
    IF /\ "mount" \in DOMAIN prov.actions
       /\ cfg.mount
       /\ prov.actions["mount"].mountpoint # NoMountpoint
    THEN [umount |-> o]
    ELSE EmptyMap

\* mutant: the unmount is skipped for a namespace whose test raised
UnmountUnlessTestRaised(o) ==
    /\ pc = "teardown"
    /\ LET ns == namespaces[pi]
           node == results[ctrl].namespaces[ns]
           post == IF node.results.keys = {"error"} THEN EmptyMap
                   ELSE maybe_unmount_namespace(node.provision, o)
       IN /\ o = "ok" \/ (CanFail /\ post # EmptyMap)
          /\ results' = [results EXCEPT ![ctrl].namespaces[ns] =
                            [node EXCEPT !.has_post = TRUE, !.post = post]]
          /\ unmounted' = IF post # EmptyMap
                          THEN unmounted \cup {node.provision.actions["mount"].mountpoint}
                          ELSE unmounted
    /\ injected' = Charge(Fault("umount", namespaces[pi], 0, "none", o))
    /\ IF pi < Len(namespaces)
       THEN pi' = pi + 1 /\ pc' = pc
       ELSE pi' = 0 /\ pc' = "telemetry"
    /\ UNCHANGED <<inputs, plotVars, sm, lc, ci, san, namespaces, pstep, prov_out, prov_map, nsVars, doc,
                   mounted>>

\* dev_data["namespaces"][ns]["post"] = maybe_unmount_namespace(...)
Unmount(o) ==
    /\ pc = "teardown"
    /\ LET ns == namespaces[pi]
           node == results[ctrl].namespaces[ns]
           post == maybe_unmount_namespace(node.provision, o)
       IN /\ o = "ok" \/ (CanFail /\ post # EmptyMap)
          /\ results' = [results EXCEPT ![ctrl].namespaces[ns] =
                            [node EXCEPT !.has_post = TRUE, !.post = post]]
          /\ unmounted' = IF post # EmptyMap
                          THEN unmounted \cup {node.provision.actions["mount"].mountpoint}
                          ELSE unmounted
    /\ injected' = Charge(Fault("umount", namespaces[pi], 0, "none", o))
    /\ IF pi < Len(namespaces)
       THEN pi' = pi + 1 /\ pc' = pc
       ELSE pi' = 0 /\ pc' = "telemetry"
    /\ UNCHANGED <<inputs, plotVars, sm, lc, ci, san, namespaces, pstep, prov_out, prov_map, nsVars, doc,
                   mounted>>

\* mutant: the next controller is started without the telemetry log of this one
TelemetryLogNotRecorded(o) ==
    /\ pc = "telemetry"
    /\ o = "ok" \/ (CanFail /\ cfg.nvme_telemetry)
    /\ injected' = Charge(Fault("telemetry_log", ctrl, 0, "none", o))
    /\ results' = results
    /\ IF ci < Len(controllers)
       THEN ci' = ci + 1 /\ pc' = "sanitize"
       ELSE ci' = ci /\ pc' = "persist"
    /\ san' = SanInit
    /\ namespaces' = <<>>
    /\ prov_map' = EmptyMap
    /\ nsState' = [n \in AllNs |-> "idle"]
    /\ smart' = [n \in AllNs |-> SmartInit]
    /\ nswl' = [n \in AllNs |-> EmptyMap]
    /\ task' = [n \in AllNs |-> TaskInit]
    /\ wlFut' = [n \in AllNs |-> WlFutInit]
    /\ nsFut' = [n \in AllNs |-> NoNsFuture]
    /\ UNCHANGED <<inputs, plotVars, sm, lc, pi, pstep, prov_out, doc, envVars>>

\* optional nvme_telemetry_log(ctrl); then the next controller, or the report
TelemetryLog(o) ==
    /\ pc = "telemetry"
    /\ o = "ok" \/ (CanFail /\ cfg.nvme_telemetry)
    /\ injected' = Charge(Fault("telemetry_log", ctrl, 0, "none", o))
    /\ results' = IF cfg.nvme_telemetry
                  THEN [results EXCEPT ![ctrl].nvme_telemetry_log = o]
                  ELSE results
    /\ IF ci < Len(controllers)
       THEN ci' = ci + 1 /\ pc' = "sanitize"
       ELSE ci' = ci /\ pc' = "persist"
    /\ san' = SanInit
    /\ namespaces' = <<>>
    /\ prov_map' = EmptyMap
    /\ nsState' = [n \in AllNs |-> "idle"]
    /\ smart' = [n \in AllNs |-> SmartInit]
    /\ nswl' = [n \in AllNs |-> EmptyMap]
    /\ task' = [n \in AllNs |-> TaskInit]
    /\ wlFut' = [n \in AllNs |-> WlFutInit]
    /\ nsFut' = [n \in AllNs |-> NoNsFuture]
    /\ UNCHANGED <<inputs, plotVars, sm, lc, pi, pstep, prov_out, doc, envVars>>

\* ------------------------------------------------------------------ persist
\* mutant: the report is also written when the next controller is about to start
SaveJsonOpenEarly ==
    /\ pc = "persist" \/ (pc = "sanitize" /\ ci > 1)
    /\ doc' = [state |-> "open", data |-> EmptyMap]
    /\ pc' = "dump"
    /\ UNCHANGED <<inputs, plotVars, sm, lc, ci, san, namespaces, provVars, nsVars, results, envVars, injected>>
\* save_json: open(filepath, "w") creates or truncates the report file
SaveJsonOpen ==
    /\ pc = "persist"
    /\ doc' = [state |-> "open", data |-> EmptyMap]
    /\ pc' = "dump"
    /\ UNCHANGED <<inputs, plotVars, sm, lc, ci, san, namespaces, provVars, nsVars, results, envVars, injected>>

\* json.dump raises while writing (the disk is full, the process is
\* interrupted): the file stays as far as it was written
SaveJsonFail ==
    /\ pc = "dump"
    /\ CanFail
    /\ injected' = Charge(Fault("save_json", ctrl, 0, "none", "raise"))
    /\ Abort
    /\ UNCHANGED <<inputs, plotVars, sm, lc, ci, san, namespaces, provVars, nsVars, results, doc, envVars>>

\* mutant: only the node of the last controller is written
SaveJsonDumpLastOnly ==
    /\ pc = "dump"
    /\ doc' = [state |-> "complete", data |-> [c \in {ctrl} |-> results[c]]]
    /\ pc' = "done"
    /\ UNCHANGED <<inputs, plotVars, sm, lc, ci, san, namespaces, provVars, nsVars, results, envVars, injected>>
\* json.dump(data, f) and close
SaveJsonDump ==
    /\ pc = "dump"
    /\ doc' = [state |-> "complete", data |-> results]
    /\ pc' = "done"
    /\ UNCHANGED <<inputs, plotVars, sm, lc, ci, san, namespaces, provVars, nsVars, results, envVars, injected>>

\* ------------------------------------------------------------ specification
Next ==
    \/ Main
    \/ SanitizeSkip
    \/ \E o \in {"ok", "Error", "raise"} : SanitizeStart(o)
    \/ \E st \in {"in_progress", "completed", "Error"} : SanitizePoll(st)
    \/ SanitizeReturn
    \/ \E o \in {"ok", "raise"} : Discover(o)
    \/ \E o \in {"ok", "Error", "raise"} : ProvWriteProtect(o)
    \/ \E o \in {"ok", "Error", "raise"} : ProvFormat(o)
    \/ \E o \in {"ok", "Error", "raise"} : ProvMkfs(o)
    \/ \E o \in {"ok", "Error", "raise"} : ProvMount(o)
    \/ ProvReturn
    \/ SubmitNamespaces
    \/ \E n \in AllNs, o \in {"ok", "Error"} : SmartPoll(n, o)
    \/ \E n \in AllNs, o \in {"ok", "raise"} : LaunchWorkloads(n, o)
    \/ \E n \in AllNs, k \in 1..MaxParallel, t \in Tasks, o \in {"ok", "bad", "raise"} :
          TaskFinish(n, k, t, o)
    \/ \E n \in AllNs, k \in 1..MaxParallel : WorkloadReturn(n, k)
    \/ \E n \in AllNs, k \in 1..MaxParallel : CollectWorkload(n, k)
    \/ \E n \in AllNs : NamespaceReturn(n)
    \/ \E n \in AllNs : CollectNamespace(n)
    \/ JoinNamespaces
    \/ \E o \in {"ok", "Error"} : Unmount(o)
    \/ \E o \in {"ok", "Error"} : TelemetryLog(o)
    \/ SaveJsonOpen
    \/ SaveJsonFail
    \/ SaveJsonDump

Spec == Init /\ [][Next]_vars

\* The run when every external command returns and every thread that can take
\* a step is eventually scheduled: all timeouts, durations and intervals of the
\* model are finite and every pool has a worker for each task submitted to it,
\* so some enabled step of the run is always eventually taken.
FairSpec == Init /\ [][Next]_vars /\ WF_vars(Next)

\* ========================================================= timeline resampler
\* bounds of the resampler inputs
MaxLen == 3
MaxTarget == 5
SeriesValues == {10, 20}

\* Python's round() of the quotient p / q for p >= 0, q > 0: the nearest
\* integer, and the even neighbour when the quotient lies exactly halfway.
\* (For the lengths used here the float quotient p / q is a tie exactly when
\* 2 * (p % q) = q.)
\* mutant: the quotient is truncated instead of rounded
PyTrunc(p, q) == p \div q
PyRound(p, q) ==
    LET lo == p \div q
        r  == p % q
    IN  IF 2 * r < q THEN lo
        ELSE IF 2 * r > q THEN lo + 1
        ELSE IF lo % 2 = 0 THEN lo ELSE lo + 1

\* mutant: no zero is produced for an empty input
ZerosEmpty(n) == <<>>
\* [0.0] * target_len
Zeros(n) == [i \in 1..n |-> 0]

\* mutant: for target_len = 1 the whole input is returned
resample_keeps_input(values, target_len) ==
    IF target_len <= 0 THEN <<>>
    ELSE IF values = <<>> THEN Zeros(target_len)
    ELSE IF Len(values) = target_len THEN values
    ELSE IF target_len = 1 THEN values
    ELSE [i \in 1..target_len |->
             values[PyRound((i - 1) * (Len(values) - 1), target_len - 1) + 1]]
\* _resample_to_len: list index i of the code is i + 1 here
_resample_to_len(values, target_len) ==
    IF target_len <= 0 THEN <<>>
    ELSE IF values = <<>> THEN Zeros(target_len)
    ELSE IF Len(values) = target_len THEN values
    ELSE IF target_len = 1 THEN <<values[1]>>
    ELSE [i \in 1..target_len |->
             values[PyRound((i - 1) * (Len(values) - 1), target_len - 1) + 1]]

\* the series handed to the resampler: every series over SeriesValues up to
\* MaxLen elements, and the series of the documented examples
SeriesUpTo(n) == UNION {[1..m -> SeriesValues] : m \in 0..n}
SeriesInputs == SeriesUpTo(MaxLen) \cup {<<7>>, <<1, 2, 3, 4, 5>>}
TargetLens == (0 - 1)..MaxTarget

\* report generation for one workload of one namespace: the orchestrator is at
\* rest, values is a load trend and target_len the length asked for
ResampleInit ==
    /\ cfg = MkCfg(SanitizeOff, ProvOff, <<"randread">>)
    /\ controllers = <<>>
    /\ devices = <<>>
    /\ RunInit
    /\ \E v \in SeriesInputs, n \in TargetLens :
          rs = [state |-> "input", values |-> v, target_len |-> n, mapped |-> <<>>]
    /\ plot = PlotIdle
    /\ sm = SmIdle
    /\ lc = LcIdle

\* one call _resample_to_len(values, target_len)
Resample ==
    /\ rs.state = "input"
    /\ rs' = [rs EXCEPT !.state = "done",
                        !.mapped = _resample_to_len(rs.values, rs.target_len)]
    /\ UNCHANGED <<inputs, pc, ci, san, namespaces, provVars, nsVars, results, doc,
                   envVars, injected, plot, sm, lc>>

\* plot_combined_timeline for a SMART timeline of target_len samples and the
\* trends {"iops": values, "latency": values} (extract_fio_trends appends to
\* both lists together): nothing is drawn without SMART samples; the IOPS
\* trend is always resampled, the latency trend only when it is not empty.
PlotCombinedTimeline ==
    /\ plot.state = "idle"
    /\ rs.target_len >= 0
    /\ plot' = IF rs.target_len = 0
               THEN [PlotIdle EXCEPT !.state = "empty"]
               ELSE [state |-> "drawn",
                     iops_series |-> _resample_to_len(rs.values, rs.target_len),
                     lat_series |-> IF rs.values # <<>>
                                    THEN _resample_to_len(rs.values, rs.target_len)
                                    ELSE <<>>]
    /\ UNCHANGED <<inputs, pc, ci, san, namespaces, provVars, nsVars, results, doc,
                   envVars, injected, rs, sm, lc>>

ResampleNext == Resample \/ PlotCombinedTimeline

ResampleSpec == ResampleInit /\ [][ResampleNext]_vars

\* ================================================================ load_config
\* bound: the number of load_config calls made in one process
MaxLoads == 3

\* user_cfg["smart"] of the configuration files explored
SmartOverrides ==
    {EmptyMap,
     [k \in {"duration"} |-> 1],
     [k \in {"interval"} |-> 2],
     [k \in {"duration", "interval"} |-> IF k = "duration" THEN 1 ELSE 2]}

\* the parsed contents of the well-formed configuration files explored
UserCfgs ==
    {EmptyMap, [k \in {"output_dir"} |-> "/tmp/out"]}
        \cup {[k \in {"smart"} |-> s] : s \in SmartOverrides}
        \cup {[output_dir |-> "/tmp/out", smart |-> s] : s \in SmartOverrides}

\* the argument of load_config and what the file system holds for it: no path;
\* a path that does not exist; a file the parser rejects; a YAML file while
\* pyyaml is not installed; a file that parses to a list; a file that parses
\* to a dict
ConfigFile(given, exists, parsed, user) ==
    [given |-> given, exists |-> exists, parsed |-> parsed, user |-> user]
ConfigFiles ==
    {ConfigFile(FALSE, FALSE, "error", EmptyMap),
     ConfigFile(TRUE, FALSE, "error", EmptyMap),
     ConfigFile(TRUE, TRUE, "error", EmptyMap),
     ConfigFile(TRUE, TRUE, "no_yaml", EmptyMap),
     ConfigFile(TRUE, TRUE, "list", EmptyMap)}
        \cup {ConfigFile(TRUE, TRUE, "dict", u) : u \in UserCfgs}

\* the four 'return DEFAULT_CFG.copy()' exits: no path, no such file, YAML
\* without pyyaml, or an exception while the file is read and parsed
UsesDefaults(f) == ~f.given \/ ~f.exists \/ f.parsed \in {"no_yaml", "error"}

\* deep_merge(a, b) where no value of b is a dict: a[k] = v for every item of b
deep_merge(a, b) == [k \in DOMAIN a \cup DOMAIN b |-> IF k \in DOMAIN b THEN b[k] ELSE a[k]]

\* DEFAULT_CFG.copy() is a new top-level dict whose "smart" entry is the very
\* dict object held by DEFAULT_CFG. deep_merge(cfg, user_cfg) therefore assigns
\* a scalar such as output_dir in the copy only, and recurses into the shared
\* "smart" object for a nested override. d is the present content of
\* DEFAULT_CFG; the result holds its content afterwards and the returned dict.
load_config(d, f) ==
    IF UsesDefaults(f)
    THEN [defaults |-> d, outcome |-> "returned", value |-> d]
    ELSE IF f.parsed = "list"
    THEN [defaults |-> d, outcome |-> "raised", value |-> d]
    ELSE LET smart_obj == IF "smart" \in DOMAIN f.user
                          THEN deep_merge(d.smart, f.user["smart"])
                          ELSE d.smart
             out_dir == IF "output_dir" \in DOMAIN f.user
                        THEN f.user["output_dir"]
                        ELSE d.output_dir
         IN [defaults |-> [d EXCEPT !.smart = smart_obj],
             outcome |-> "returned",
             value |-> [output_dir |-> out_dir, smart |-> smart_obj]]

LoadConfigInit ==
    /\ cfg = MkCfg(SanitizeOff, ProvOff, <<"randread">>)
    /\ controllers = <<>>
    /\ devices = <<>>
    /\ RunInit
    /\ rs = RsIdle
    /\ plot = PlotIdle
    /\ sm = SmIdle
    /\ lc = LcIdle

\* one call load_config(path); an exception that leaves it ends the process
LoadConfig(f) ==
    /\ lc.calls < MaxLoads
    /\ lc.outcome # "raised"
    /\ LET r == load_config(lc.defaults, f) IN
          lc' = [defaults |-> r.defaults, calls |-> lc.calls + 1, file |-> f,
                 outcome |-> r.outcome, value |-> r.value]
    /\ UNCHANGED <<inputs, pc, ci, san, namespaces, provVars, nsVars, results, doc,
                   envVars, injected, plotVars, sm>>

LoadConfigNext == \E f \in ConfigFiles : LoadConfig(f)

LoadConfigSpec == LoadConfigInit /\ [][LoadConfigNext]_vars

\* ============================================================= SMART sampler
\* monitor_smart on its own, with the wall clock in seconds: time.time() gives
\* the clock, time_hms() its time of day.
MaxDuration == 3
MaxInterval == 2
MaxProbeDelay == 1
DaySeconds == 86400

\* datetime.now().strftime("%H:%M:%S") as <<hours, minutes, seconds>>; the
\* zero-padded strings compare as these triples do
time_hms(t) ==
    LET s == t % DaySeconds IN <<s \div 3600, (s \div 60) % 60, s % 60>>

\* the order of two "HH:MM:SS" strings
HmsLeq(a, b) ==
    \/ a[1] < b[1]
    \/ a[1] = b[1] /\ a[2] < b[2]
    \/ a[1] = b[1] /\ a[2] = b[2] /\ a[3] <= b[3]

\* clock readings at which the sampler is started: midnight, noon, and the last
\* seconds of a day
StartTimes == {0, DaySeconds \div 2} \cup {DaySeconds - k : k \in 1..(MaxDuration + 1)}

MonitorSmartInit ==
    /\ cfg = MkCfg(SanitizeOff, ProvOff, <<"randread">>)
    /\ controllers = <<>>
    /\ devices = <<>>
    /\ RunInit
    /\ rs = RsIdle
    /\ plot = PlotIdle
    /\ \E t \in StartTimes, i \in 1..MaxInterval, d \in (0 - 1)..MaxDuration :
          sm = [state |-> "loop", start |-> t, now |-> t, interval |-> i,
                duration |-> d, polls |-> 0, outcomes |-> <<>>, logs |-> <<>>]
    /\ lc = LcIdle

\* mutant: the loop runs once more when the duration has just elapsed
MonitorSmartLoopOpenLate == sm.now - sm.start <= sm.duration
\* the loop test: time.time() - start < duration
MonitorSmartLoopOpen == sm.now - sm.start < sm.duration

\* mutant: a failed probe ends the sampling
MonitorSmartPollStopsOnFailure(o, d) ==
    /\ sm.state = "loop"
    /\ MonitorSmartLoopOpen
    /\ sm' = [sm EXCEPT !.polls = @ + 1,
                        !.outcomes = Append(@, o),
                        !.logs = IF o = "ok"
                                 THEN Append(@, [time |-> time_hms(sm.now + d),
                                                 poll |-> sm.polls + 1])
                                 ELSE @,
                        !.now = IF o = "ok" THEN @ + d + sm.interval
                                ELSE sm.start + sm.duration]
    /\ UNCHANGED <<inputs, pc, ci, san, namespaces, provVars, nsVars, results, doc,
                   envVars, injected, plotVars, lc>>
\* one iteration: the health probe takes d seconds; when it succeeds and
\* parses (o = "ok") a sample stamped time_hms() is appended, otherwise the
\* failure is swallowed; then sleep(interval)
MonitorSmartPoll(o, d) ==
    /\ sm.state = "loop"
    /\ MonitorSmartLoopOpen
    /\ sm' = [sm EXCEPT !.polls = @ + 1,
                        !.outcomes = Append(@, o),
                        !.logs = IF o = "ok"
                                 THEN Append(@, [time |-> time_hms(sm.now + d),
                                                 poll |-> sm.polls + 1])
                                 ELSE @,
                        !.now = @ + d + sm.interval]
    /\ UNCHANGED <<inputs, pc, ci, san, namespaces, provVars, nsVars, results, doc,
                   envVars, injected, plotVars, lc>>

\* return logs
MonitorSmartReturn ==
    /\ sm.state = "loop"
    /\ ~MonitorSmartLoopOpen
    /\ sm' = [sm EXCEPT !.state = "returned"]
    /\ UNCHANGED <<inputs, pc, ci, san, namespaces, provVars, nsVars, results, doc,
                   envVars, injected, plotVars, lc>>

MonitorSmartNext ==
    \/ \E o \in {"ok", "fail"}, d \in 0..MaxProbeDelay : MonitorSmartPoll(o, d)
    \/ MonitorSmartReturn

MonitorSmartSpec == MonitorSmartInit /\ [][MonitorSmartNext]_vars

\* ================================================================== claims
\* namespace nodes of the result tree, as <<controller, namespace>> pairs
TreeNodes == {<<c, n>> \in AllCtrls \X AllNs :
                 c \in DOMAIN results /\ n \in DOMAIN results[c].namespaces}
NodeResult(cn) == results[cn[1]].namespaces[cn[2]].results
IsError(v) == v.error # "none"

\* C1 as stated: every namespace of the result tree has a workloads map whose key
\* set is the configured workload set, whatever failed at workload or namespace level.
C1_WorkloadKeysAlways ==
    \A cn \in TreeNodes : DOMAIN NodeResult(cn).workloads = Range(workloads)

\* C1 amended: a namespace whose test_namespace returned normally (its result is
\* not a namespace-level error marker) has exactly the effective workload set as
\* the keys of its workloads map, each entry a result or an error marker.
C1_WorkloadKeysWhenReturned ==
    /\ \A cn \in TreeNodes :
          "workloads" \in NodeResult(cn).keys
             => DOMAIN NodeResult(cn).workloads = Range(workloads)
    /\ \A n \in AllNs :
          (nsFut[n].state \in {"done", "collected"} /\ "workloads" \in nsFut[n].value.keys)
             => DOMAIN nsFut[n].value.workloads = Range(workloads)

\* C1 witness: a namespace node with two workload entries, one of them an error marker
C1_Witness ==
    \E cn \in TreeNodes :
        /\ "workloads" \in NodeResult(cn).keys
        /\ Cardinality(DOMAIN NodeResult(cn).workloads) = 2
        /\ \E w \in DOMAIN NodeResult(cn).workloads : IsError(NodeResult(cn).workloads[w])

\* C2 as stated: a run started with at least one controller always ends with the
\* result document written, whatever its steps returned or raised.
C2_RunAlwaysPersists ==
    (controllers # <<>> /\ pc \in {"done", "aborted"}) => doc.state = "complete"

\* the timeline monitor_smart returns when every health probe succeeds
FaultFreeTimeline ==
    [i \in 1..((SmartDuration + SmartInterval - 1) \div SmartInterval) |->
        [time |-> (i - 1) * SmartInterval]]

\* C3: when the only failure of a run is in the fio task of one workload of one
\* namespace, every other workload entry is a non-error result, no namespace
\* result is an error marker, and every SMART timeline is the fault-free one.
C3_FioFaultIsolated ==
    \A f \in injected :
        (injected = {f} /\ f.step = "task" /\ f.t = "fio") =>
            /\ \A cn \in TreeNodes :
                  /\ NodeResult(cn).keys = {"smart_logs", "workloads"}
                  /\ NodeResult(cn).smart_logs = FaultFreeTimeline
                  /\ \A w \in DOMAIN NodeResult(cn).workloads :
                        (cn[2] # f.ns \/ w # workloads[f.k]) =>
                            /\ ~IsError(NodeResult(cn).workloads[w])
                            /\ NodeResult(cn).workloads[w].fio_json = "ok"
            /\ \A n \in AllNs : \A w \in DOMAIN nswl[n] :
                  (n # f.ns \/ w # workloads[f.k]) => ~IsError(nswl[n][w])

\* C3 witness: a persisted run whose only failure was one fio task that raised,
\* with the faulted slot an error marker next to a sibling workload result
C3_Witness ==
    /\ doc.state = "complete"
    /\ \E f \in injected :
          /\ injected = {f} /\ f.step = "task" /\ f.t = "fio" /\ f.o = "raise"
          /\ \E c \in DOMAIN doc.data :
                /\ f.ns \in DOMAIN doc.data[c].namespaces
                /\ LET wl == doc.data[c].namespaces[f.ns].results.workloads IN
                      /\ IsError(wl[workloads[f.k]])
                      /\ \E w \in DOMAIN wl : ~IsError(wl[w])

\* the slot of a WorkloadResult that holds the result of a task
Slot(v, t) ==
    CASE t = "fio" -> v.fio_json
      [] t = "sensors" -> v.sensors_series
      [] t = "turbostat" -> v.turbostat
      [] t = "power" -> v.power_states

\* C4 as stated: when one of the four tasks of a workload raises, the workload
\* still returns a WorkloadResult in which only that task's slot is an error
\* marker and the results of the other three tasks are present.
C4_TaskFaultContained ==
    \A f \in injected :
        (/\ f.step = "task" /\ f.o = "raise"
         /\ wlFut[f.ns][f.k].state \in {"done", "collected"}) =>
            LET v == wlFut[f.ns][f.k].value IN
            /\ ~IsError(v)
            /\ Slot(v, f.t) = "error"
            /\ \A t \in Tasks \ {f.t} : Slot(v, t) # "absent"

ValidSanitizeAction == cfg.sanitize_action \in {"block", "overwrite", "crypto"}

C6_PollingEndsOnSuccessOrTimeout ==
    pc = "san_poll" =>
        /\ san.issued = 1
        /\ san.last = "completed" => ~SanitizeLoopOpen(san)
        /\ san.elapsed >= SanitizeTimeout => ~SanitizeLoopOpen(san)

CtrlIndex(c) == CHOOSE i \in 1..Len(controllers) : controllers[i] = c

\* the teardown loop of controller c has finished
TornDown(c) ==
    /\ c \in DOMAIN results
    /\ results[c].has_namespaces
    /\ CtrlIndex(c) < ci \/ pc \in {"telemetry", "persist", "dump", "done"}

\* C7: once the teardown of a controller has finished, every namespace of its
\* result for which a mount was recorded during provisioning has a post.umount
\* entry, also when its test returned error markers or raised.
C7_MountedHasUmount ==
    \A cn \in TreeNodes :
        LET node == results[cn[1]].namespaces[cn[2]] IN
        (TornDown(cn[1]) /\ "mount" \in DOMAIN node.provision.actions) =>
            node.has_post /\ "umount" \in DOMAIN node.post

\* C7 witness: a torn-down namespace that was mounted, whose test raised, with
\* its umount entry
C7_Witness ==
    \E cn \in TreeNodes :
        LET node == results[cn[1]].namespaces[cn[2]] IN
        /\ TornDown(cn[1])
        /\ "mount" \in DOMAIN node.provision.actions
        /\ node.results.keys = {"error"}
        /\ "umount" \in DOMAIN node.post

\* C8 as stated: whenever the pipeline of a controller has been left, normally or
\* by an exception, an unmount was attempted for every mountpoint that was mounted.
C8_MountReleasedOnEveryExit ==
    pc \in {"aborted", "telemetry", "sanitize", "san_poll", "discover", "persist",
            "dump", "done"}
        => mounted \subseteq unmounted

\* C9 as stated: the workloads of a namespace are launched while its SMART sampler
\* is still sampling, and the coordinator returns only after the sampler and
\* every workload have finished.
C9_SmartConcurrentWithWorkloads ==
    [][\A n \in AllNs :
          /\ (nsState[n] = "smart" /\ nsState'[n] = "collect") => SmartLoopOpen(smart[n])
          /\ (nsState[n] = "collect" /\ nsState'[n] = "finished") =>
                /\ ~SmartLoopOpen(smart[n])
                /\ \A k \in WlIdx : wlFut[n][k].state = "collected"]_vars

\* C10: a workload executor has exactly four tasks, all four are started together
\* when it is launched, and once it has returned (normally or with an error) or
\* its result slot is written, none of its tasks is still running. (The slot of
\* a workload is told by its name, so this part is for names listed once.)
C10_JoinsAllFour ==
    \A n \in AllNs : \A k \in 1..MaxParallel :
        /\ DOMAIN task[n][k] = Tasks /\ Cardinality(Tasks) = 4
        /\ wlFut[n][k].state = "pending" => \A t \in Tasks : task[n][k][t] # "idle"
        /\ wlFut[n][k].state \in {"done", "collected"} =>
              \A t \in Tasks : task[n][k][t] = "joined"
        /\ (/\ k \in WlIdx
            /\ \A j \in WlIdx : workloads[j] = workloads[k] => j = k
            /\ workloads[k] \in DOMAIN nswl[n]) =>
              \A t \in Tasks : task[n][k][t] # "run"

\* C10 witness: a workload executor that returned with an error after one of its
\* tasks raised, with all four tasks joined
C10_Witness ==
    \E n \in AllNs : \E k \in WlIdx :
        /\ wlFut[n][k].state = "done"
        /\ IsError(wlFut[n][k].value)
        /\ \A t \in Tasks : task[n][k][t] = "joined"

\* ------------------------------------------------------- resampler claims
\* src is the integer nearest to i * (M - 1) / (N - 1), and the even one when
\* two integers are equally near
IsSourceIndex(src, i, M, N) ==
    LET d == src * (N - 1) - i * (M - 1)
        a == IF d < 0 THEN 0 - d ELSE d
    IN  /\ 2 * a <= N - 1
        /\ 2 * a = N - 1 => src % 2 = 0

\* C11: for an input of M >= 1 elements and a target length N >= 2 with
\* M # N, output element i is the input element at round(i*(M-1)/(N-1)): that
\* index exists, is the only one, lies in 0..M-1, and so the output is fixed by
\* the input alone.
C11_ResampleNearestIndex ==
    LET M == Len(rs.values)
        N == rs.target_len
    IN  (rs.state = "done" /\ M >= 1 /\ N >= 2 /\ M # N) =>
            /\ Len(rs.mapped) = N
            /\ \A i \in 0..(N - 1) :
                  /\ \E src \in 0..(M - 1) : IsSourceIndex(src, i, M, N)
                  /\ \A src \in 0..(M + 1) :
                        IsSourceIndex(src, i, M, N) =>
                            src <= M - 1 /\ rs.mapped[i + 1] = rs.values[src + 1]

C11_Witness ==
    /\ rs.state = "done"
    /\ rs.values = <<1, 2, 3, 4, 5>>
    /\ rs.target_len = 3
    /\ rs.mapped = <<1, 3, 5>>

\* C12 as stated: resampling [10, 20] to length 5 gives [10, 10, 20, 20, 20]:
\* the halfway position of output index 2 takes source index 1.
C12_HalfwayTakesHigherIndex ==
    (rs.state = "done" /\ rs.values = <<10, 20>> /\ rs.target_len = 5) =>
        rs.mapped = <<10, 10, 20, 20, 20>>

\* C13: a resampled series has the reference length N when N > 0, for every
\* input length, and is empty when N <= 0; so has every series that
\* plot_combined_timeline resamples for the combined view.
C13_ResampledLength ==
    /\ rs.state = "done" =>
          IF rs.target_len > 0 THEN Len(rs.mapped) = rs.target_len
          ELSE rs.mapped = <<>>
    /\ plot.state = "drawn" =>
          /\ rs.target_len > 0
          /\ Len(plot.iops_series) = rs.target_len
          /\ rs.values # <<>> => Len(plot.lat_series) = rs.target_len

C13_Witness ==
    /\ rs.state = "done"
    /\ Len(rs.values) = 3
    /\ rs.target_len = 2
    /\ Len(rs.mapped) = 2
    /\ plot.state = "drawn"

\* C14: the special cases in their order of precedence: N <= 0 gives the empty
\* series; else an empty input gives N zeros; else M = N gives the input itself;
\* else N = 1 gives [input[0]]; and a one-element input gives N copies of it.
C14_SpecialCasePrecedence ==
    LET M == Len(rs.values)
        N == rs.target_len
    IN  rs.state = "done" =>
            /\ N <= 0 => rs.mapped = <<>>
            /\ (N > 0 /\ M = 0) => rs.mapped = [i \in 1..N |-> 0]
            /\ (N > 0 /\ M > 0 /\ M = N) => rs.mapped = rs.values
            /\ (N = 1 /\ M > 1) => rs.mapped = <<rs.values[1]>>
            /\ (N > 1 /\ M = 1) => rs.mapped = [i \in 1..N |-> rs.values[1]]

C14_Witness ==
    /\ rs.state = "done"
    /\ rs.values = <<7>>
    /\ rs.target_len = 3
    /\ rs.mapped = <<7, 7, 7>>

\* ------------------------------------------------------ result-tree claims
\* n is c followed by "n" and at least one digit
IsNamespaceOf(n, c) ==
    /\ Len(n) >= Len(c) + 2
    /\ SubSeq(n, 1, Len(c)) = c
    /\ n[Len(c) + 1] = "n"
    /\ \A i \in (Len(c) + 2)..Len(n) : n[i] \in Digits

\* the provisioning steps the configuration asks for
ExpectedProvision ==
    {a \in {"write_protect", "format", "mkfs", "mount"} :
        \/ a = "write_protect" /\ cfg.write_protect
        \/ a = "format" /\ cfg.format
        \/ a = "mkfs" /\ cfg.create
        \/ a = "mount" /\ cfg.create /\ cfg.mount}

\* C15: in the persisted document every controller of the input list has a
\* node (with a sanitize result when sanitize is enabled), and every namespace
\* discovered for it has a node with its provisioning actions, with its test
\* results (one entry per workload) or an error marker, and with its post-test
\* actions.
C15_DocumentHasEveryBranch ==
    doc.state = "complete" =>
        \A c \in Range(controllers) :
            /\ c \in DOMAIN doc.data
            /\ cfg.sanitize_enabled => doc.data[c].sanitize # "absent"
            /\ doc.data[c].has_namespaces
            /\ \A n \in Range(devices) :
                  IsNamespaceOf(n, c) =>
                      /\ n \in DOMAIN doc.data[c].namespaces
                      /\ LET node == doc.data[c].namespaces[n] IN
                            /\ node.provision.namespace = n
                            /\ DOMAIN node.provision.actions = ExpectedProvision
                            /\ \/ node.results.keys = {"error"}
                               \/ /\ node.results.keys = {"smart_logs", "workloads"}
                                  /\ DOMAIN node.results.workloads = Range(workloads)
                            /\ node.has_post

\* C15 witness: a persisted document with two controllers, one namespace node an
\* error marker
C15_Witness ==
    /\ doc.state = "complete"
    /\ Cardinality(DOMAIN doc.data) = 2
    /\ \E c \in DOMAIN doc.data : \E n \in DOMAIN doc.data[c].namespaces :
          doc.data[c].namespaces[n].results.keys = {"error"}

\* C16 as stated: a key of a workloads map or of a namespaces map is written by
\* one task only: when a result is stored under a key, the key is not in the
\* map yet.
C16_EachKeyWrittenOnce ==
    [][/\ \A n \in AllNs : \A k \in 1..MaxParallel :
              (wlFut[n][k].state = "done" /\ wlFut'[n][k].state = "collected") =>
                  workloads[k] \notin DOMAIN nswl[n]
       /\ \A n \in AllNs :
              (nsFut[n].state = "done" /\ nsFut'[n].state = "collected") =>
                  n \notin DOMAIN results[ctrl].namespaces]_vars

\* C17: a namespace key of the result tree is under one controller only, and
\* that controller's identifier is the namespace identifier without its
\* trailing n<digits>.
C17_NamespaceUnderItsController ==
    \A c \in DOMAIN results : \A n \in DOMAIN results[c].namespaces :
        /\ IsNamespaceOf(n, c)
        /\ \A c2 \in DOMAIN results : n \in DOMAIN results[c2].namespaces => c2 = c

\* C17 witness: both controllers have a namespace node
C17_Witness ==
    /\ nvme0 \in DOMAIN results /\ nvme1 \in DOMAIN results
    /\ nvme0n1 \in DOMAIN results[nvme0].namespaces
    /\ nvme1n1 \in DOMAIN results[nvme1].namespaces

\* C19: the report is written by one save_json call that starts only when the
\* last controller's teardown and telemetry step are over: before that no
\* document exists, not even a partial one, and a complete document is never
\* written again.
C19_PersistedOnceAtEnd ==
    /\ [](doc.state # "absent" =>
            /\ pc \in {"dump", "done", "aborted"}
            /\ ci = Len(controllers)
            /\ \A c \in Range(controllers) :
                  /\ c \in DOMAIN results
                  /\ results[c].has_namespaces
                  /\ \A n \in DOMAIN results[c].namespaces :
                        results[c].namespaces[n].has_post)
    /\ [][/\ doc' # doc =>
               \/ doc.state = "absent" /\ doc'.state = "open" /\ pc = "persist"
               \/ doc.state = "open" /\ doc'.state = "complete" /\ pc = "dump"
          /\ doc.state = "complete" => doc' = doc]_vars

\* C19 witness: the document of a run over two controllers, the first of which
\* had a namespace
C19_Witness ==
    /\ doc.state = "complete"
    /\ pc = "done"
    /\ Len(controllers) = 2
    /\ results[controllers[1]].namespaces # EmptyMap

\* C20 as stated: the report path holds no document or the complete document,
\* at every point of the run, also when the write is interrupted.
C20_PersistAtomic ==
    doc.state \in {"absent", "complete"}

\* ---------------------------------------------------------- sampler claims
\* C18 as stated: the samples of a SMART timeline are in the order they were
\* taken and their recorded timestamps never decrease from one sample to the
\* next, whenever the sampler was started.
C18_SmartTimestampsNonDecreasing ==
    \A i \in 1..(Len(sm.logs) - 1) :
        /\ sm.logs[i].poll < sm.logs[i + 1].poll
        /\ HmsLeq(sm.logs[i].time, sm.logs[i + 1].time)

\* ceil(d / i) for i > 0
CeilDiv(d, i) == (d + i - 1) \div i

\* C21: with probes that all succeed and take no time, monitor_smart returns
\* ceil(D / I) samples for a duration D > 0, and none for D <= 0.
C21_SampleCount ==
    (/\ sm.state = "returned"
     /\ \A j \in 1..Len(sm.outcomes) : sm.outcomes[j] = "ok"
     /\ sm.now - sm.start = sm.polls * sm.interval) =>
        Len(sm.logs) = IF sm.duration <= 0 THEN 0
                       ELSE CeilDiv(sm.duration, sm.interval)

\* C21 witness: duration 3, interval 2, two samples
C21_Witness ==
    /\ sm.state = "returned"
    /\ sm.duration = 3 /\ sm.interval = 2
    /\ sm.outcomes = <<"ok", "ok">>
    /\ sm.now - sm.start = 4
    /\ Len(sm.logs) = 2

\* the polls that succeeded, in polling order
OkPolls(outs) == SelectSeq([j \in 1..Len(outs) |-> j], LAMBDA j : outs[j] = "ok")

\* C30: a failed or unparsable probe adds nothing to the timeline and does not
\* end the sampling: the timeline holds the successful polls, in polling order,
\* and polling goes on until the duration has elapsed.
C30_FailedProbesSkipped ==
    /\ Len(sm.outcomes) = sm.polls
    /\ [j \in 1..Len(sm.logs) |-> sm.logs[j].poll] = OkPolls(sm.outcomes)
    /\ Len(sm.logs) <= sm.polls
    /\ sm.state = "returned" => sm.now - sm.start >= sm.duration
    /\ (sm.state = "returned" /\ sm.duration > 0) =>
          sm.polls * (sm.interval + MaxProbeDelay) >= sm.duration

\* C30 witness: a failed probe between two successful ones
C30_Witness ==
    /\ sm.state = "returned"
    /\ sm.outcomes = <<"ok", "fail", "ok">>
    /\ Len(sm.logs) = 2

\* ------------------------------------------------------ provisioning claims
\* C22 as stated: each of the four provisioning actions is applied, and its
\* outcome recorded, exactly when its own flag is enabled, whatever the other
\* three flags are.
C22_EachFlagIndependent ==
    \A n \in DOMAIN prov_map :
        /\ "write_protect" \in DOMAIN prov_map[n].actions <=> cfg.write_protect
        /\ "format" \in DOMAIN prov_map[n].actions <=> cfg.format
        /\ "mkfs" \in DOMAIN prov_map[n].actions <=> cfg.create
        /\ "mount" \in DOMAIN prov_map[n].actions <=> cfg.mount

\* the status loop of the current controller ran into its timeout and no poll
\* reported completion
SanitizeTimedOut ==
    /\ cfg.sanitize_enabled /\ ValidSanitizeAction
    /\ san.issued = 1
    /\ san.elapsed >= SanitizeTimeout
    /\ ~san.broke
    /\ san.last # "completed"

\* C23 as stated: after a sanitize that timed out the run goes on with the
\* controller, and the controller's sanitize result records the timeout: it is
\* not just the output of the sanitize command, which is what a completed
\* sanitize records.
C23_TimeoutRecorded ==
    (SanitizeTimedOut /\ pc \in {"discover", "provision", "test", "join", "teardown",
                                 "telemetry"}) =>
        /\ ctrl \in DOMAIN results
        /\ results[ctrl].sanitize # "absent"
        /\ results[ctrl].sanitize # san.out

\* C28: teardown issues an unmount for a namespace exactly when provisioning
\* recorded a mount for it, whatever the mount command returned: a recorded mount
\* always carries the mountpoint of its namespace, that mountpoint is the argument
\* handed to the namespace's test coordinator, and a mountpoint is never unmounted
\* unless it was mounted.
C28_UmountIffMountAttempted ==
    /\ \A cn \in TreeNodes :
          LET node == results[cn[1]].namespaces[cn[2]] IN
          /\ node.has_post =>
                ("umount" \in DOMAIN node.post <=> "mount" \in DOMAIN node.provision.actions)
          /\ "mount" \in DOMAIN node.provision.actions =>
                /\ node.provision.actions["mount"].mountpoint = MountpointOf(cn[2])
                /\ node.provision.mountpoint = MountpointOf(cn[2])
          /\ "mount" \notin DOMAIN node.provision.actions =>
                node.provision.mountpoint = NoMountpoint
    /\ pc = "join" =>
          \A n \in NsSet :
              mountpoint_arg(n) = IF "mount" \in DOMAIN prov_map[n].actions
                                  THEN MountpointOf(n) ELSE NoMountpoint
    /\ unmounted \subseteq mounted

\* C28 witness: a namespace whose mount returned failure text, torn down with an
\* umount entry for the recorded mountpoint
C28_Witness ==
    \E cn \in TreeNodes :
        LET node == results[cn[1]].namespaces[cn[2]] IN
        /\ node.has_post
        /\ "mount" \in DOMAIN node.provision.actions
        /\ node.provision.actions["mount"].output = "Error"
        /\ "umount" \in DOMAIN node.post
        /\ MountpointOf(cn[2]) \in unmounted

\* test_namespace of ns n, or a workload or telemetry task it spawned, is running
Running(n) ==
    \/ nsState[n] \in {"smart", "collect"}
    \/ nsFut[n].state = "pending"
    \/ \E k \in 1..MaxParallel :
          \/ wlFut[n][k].state = "pending"
          \/ \E t \in Tasks : task[n][k][t] = "run"

\* C26: while the teardown loop of a controller is running, and whenever a
\* namespace of the current controller carries a post entry, no test coordinator
\* of that controller and no task it spawned is running; and during the join
\* every namespace of the controller has had its coordinator started.
C26_TeardownAfterJoin ==
    /\ pc = "teardown" => \A n \in AllNs : ~Running(n)
    /\ \A cn \in TreeNodes :
          (cn[1] = ctrl /\ results[cn[1]].namespaces[cn[2]].has_post) =>
              \A n \in AllNs : ~Running(n)
    /\ pc = "join" => \A n \in NsSet : nsState[n] # "idle"

\* C26 witness: the teardown of a controller with two namespaces has issued its
\* first unmount after both coordinators ran all their workloads
C26_Witness ==
    /\ pc = "teardown" /\ pi = 2
    /\ Len(namespaces) = 2
    /\ "umount" \in DOMAIN results[ctrl].namespaces[namespaces[1]].post
    /\ \A n \in NsSet : /\ nsState[n] = "finished"
                         /\ \A k \in WlIdx, t \in Tasks : task[n][k][t] = "joined"

\* controller number j of the list has been processed to its end
ControllerFinished(j) ==
    LET c == controllers[j] IN
    /\ c \in DOMAIN results
    /\ results[c].has_namespaces
    /\ \A n \in DOMAIN results[c].namespaces : results[c].namespaces[n].has_post
    /\ cfg.nvme_telemetry => results[c].nvme_telemetry_log # "absent"

\* C27: controllers are processed one at a time in list order: every controller
\* before the current one has finished its teardown and its telemetry log, no
\* controller after the current one has an entry yet, and every started
\* namespace or workload task belongs to the current controller.
C27_ControllersSequential ==
    /\ \A j \in 1..Len(controllers) :
          /\ j < ci => ControllerFinished(j)
          /\ j > ci => controllers[j] \notin DOMAIN results
    /\ \A n \in AllNs :
          (nsState[n] # "idle" \/ Running(n)) =>
              /\ ci \in 1..Len(controllers)
              /\ controller_from_ns(n) = ctrl
    /\ \A n \in Range(namespaces) : controller_from_ns(n) = ctrl

\* C27 witness: the second controller runs a workload task after the first one
\* was torn down and, when enabled, its telemetry log was collected
C27_Witness ==
    /\ ci = 2
    /\ ControllerFinished(1)
    /\ DOMAIN results[controllers[1]].namespaces # {}
    /\ cfg.nvme_telemetry
    /\ \E n \in NsSet, k \in WlIdx, t \in Tasks : task[n][k][t] = "run"

\* the join of the namespace pool is still open: the orchestrator has not reached
\* the teardown of the current controller and no report file has been opened
JoinStalled(n) ==
    /\ nsFut[n].state = "pending"
    /\ pc = "join"
    /\ controller_from_ns(n) = ctrl
    /\ n \notin DOMAIN results[ctrl].namespaces
    /\ doc.state = "absent"

\* C24: as long as a probe made by a workload task, by the sampler or by the
\* namespace task itself has not returned, the join of its workload executor, of
\* its namespace coordinator and of the orchestrator stay open, the teardown of
\* the controller has not started and no report exists. There is no step that
\* ends a task other than its own return, so a probe that never returns keeps the
\* run in these states for ever.
C24_HungProbeStallsJoins ==
    \A n \in AllNs :
        /\ \A k \in 1..MaxParallel, t \in Tasks :
              task[n][k][t] = "run" =>
                  /\ wlFut[n][k].state = "pending"
                  /\ nsState[n] = "collect"
                  /\ JoinStalled(n)
        /\ nsState[n] \in {"smart", "collect"} => JoinStalled(n)

\* C24 witness: one telemetry task has not returned while every sibling task has
\* finished, every other workload of its namespace was collected and the other
\* namespace of the controller was collected by the orchestrator
C24_Witness ==
    /\ Len(namespaces) = 2
    /\ \E n \in NsSet, k \in WlIdx, t \in Tasks :
          /\ task[n][k][t] = "run"
          /\ \A u \in Tasks \ {t} : TaskDone(task[n][k][u])
          /\ \A j \in WlIdx \ {k} : wlFut[n][j].state = "collected"
          /\ \A m \in NsSet \ {n} : nsFut[m].state = "collected"
          /\ pc = "join" /\ doc.state = "absent"

\* C25 as stated: every load_config call returns, and a call that takes the
\* fallback (no path, missing file, unparsable file) returns the built-in
\* defaults whatever was loaded before it in the process.
C25_FallbackReturnsDefaults ==
    lc.calls > 0 =>
        /\ lc.outcome = "returned"
        /\ UsesDefaults(lc.file) => lc.value = DEFAULT_CFG

\* main() has returned or was left by an exception
Terminated == pc \in {"no_controllers", "done", "aborted"}

\* C29: when every external command returns, the run terminates, and every join
\* of the namespace pool of a controller is followed by its teardown or, for a
\* controller without namespaces, by its telemetry step.
C29_RunTerminates ==
    /\ <>Terminated
    /\ (pc = "join") ~> (pc \in {"teardown", "telemetry"})

\* C29 witness: a run over a controller with two namespaces has ended after both
\* coordinators returned their results and both namespaces were torn down
C29_Witness ==
    /\ pc = "done"
    /\ \E c \in DOMAIN results :
          /\ Cardinality(DOMAIN results[c].namespaces) = 2
          /\ \A n \in DOMAIN results[c].namespaces :
                /\ results[c].namespaces[n].results.keys = {"smart_logs", "workloads"}
                /\ results[c].namespaces[n].has_post

================================================================
